---------------------------- MODULE Spec2Model ----------------------------
(***************************************************************************)
(* Model of rordle (src/main.rs): the GameState engine (guess, won,        *)
(* get_guess_hits, back, confirm, add_char) and the game_loop that drives  *)
(* it from key events.                                                     *)
(*                                                                         *)
(* A Rust String is modelled as the sequence of its chars (Unicode scalar  *)
(* values, written as code points), so chars().count() is Len and          *)
(* chars().nth(i) is s[i+1].  Code points used below:                      *)
(*   97 'a'   65 'A'   252 'u-umlaut'   220 'U-umlaut'                     *)
(*   304 'I with dot above' (U+0130)   105 'i'   775 combining dot (U+0307)*)
(***************************************************************************)
EXTENDS Integers, Sequences, FiniteSets, TLC

VARIABLES
    game_state,   \* the GameState struct (main.rs:36-44)
    prev,         \* game_state as it was when the last operation was called
    op,           \* the last operation dispatched to the engine / key handled
    arg,          \* the char given to the last add_char (0 otherwise)
    result,       \* what guess() returned inside the last confirm()
    session,      \* where game_loop stands: Playing, or the exit it took
    printed       \* the outcome lines game_loop has printed so far

vars == <<game_state, prev, op, arg, result, session, printed>>

--------------------------------------------------------------------------
(* Bounds of the model *)

\* EngineSpec calls confirm() only while the history is shorter than this
\* (the engine itself never refuses a guess).
MaxGuesses == 3

--------------------------------------------------------------------------
(* Program constants *)

\* GameState::new sets max_tries: 6
max_tries == 6

\* mutant of LoopTries: the loop runs one attempt longer
LoopTries_one_more == max_tries + 1

\* the literal in `while game_state.guesses.len() < 6`
LoopTries == 6

--------------------------------------------------------------------------
(* Values *)

\* Option<GameError>
NoError == "None"
WrongLength == "WrongLength"
InvalidWord == "InvalidWord"

\* HitInfo
Hit == "Hit"
Contains == "Contains"
Miss == "Miss"
HitNone == "NoneHit"

\* Result<bool, GameError>
Ok(b) == [tag |-> "Ok", won |-> b, err |-> NoError]
Err(e) == [tag |-> "Err", won |-> FALSE, err |-> e]
NoResult == [tag |-> "NoCall", won |-> FALSE, err |-> NoError]

\* The chars a Key::Char(c) event can carry in the model ('\n' is the
\* confirm key and is handled by its own arm).
Keys == {97, 65, 252, 220, 304}

\* char::to_lowercase(): the lowercase mapping of c as a sequence of chars
\* (it can be longer than one char: U+0130 maps to "i" + U+0307).
to_lowercase(c) ==
    IF c \in 65..90 THEN <<c + 32>>
    ELSE IF c \in 192..222 /\ c # 215 THEN <<c + 32>>
    ELSE IF c = 304 THEN <<105, 775>>
    ELSE <<c>>

\* str::contains(char)
str_contains(s, c) == \E i \in 1..Len(s) : s[i] = c

\* char::len_utf8 and String::len, the length in bytes: the engine counts
\* chars everywhere, these serve the witnesses and the byte-counting mutants.
len_utf8(c) == IF c < 128 THEN 1 ELSE IF c < 2048 THEN 2 ELSE IF c < 65536 THEN 3 ELSE 4

RECURSIVE str_len(_)
str_len(s) == IF s = <<>> THEN 0 ELSE len_utf8(Head(s)) + str_len(Tail(s))

--------------------------------------------------------------------------
(* GameState *)

GameState_new(word, valid_words, any_word) ==
    [ valid_words   |-> valid_words,
      guesses       |-> <<>>,
      current_guess |-> <<>>,
      word          |-> word,
      max_tries     |-> max_tries,
      last_error    |-> NoError,
      any_word      |-> any_word ]

\* mutant of won: any guess of the history equal to the word counts
won_any_guess(gs) == \E i \in 1..Len(gs.guesses) : gs.guesses[i] = gs.word

won(gs) ==
    IF Len(gs.guesses) > 0
    THEN gs.guesses[Len(gs.guesses)] = gs.word
    ELSE FALSE

\* mutant of guess: the dictionary is consulted before the length
guess_dict_first(gs, g) ==
    IF ~gs.any_word /\ g \notin gs.valid_words
    THEN [gs |-> gs, result |-> Err(InvalidWord)]
    ELSE IF Len(g) # Len(gs.word)
    THEN [gs |-> gs, result |-> Err(WrongLength)]
    ELSE LET pushed == [gs EXCEPT !.guesses = Append(@, g)]
         IN  [gs |-> pushed, result |-> Ok(won(pushed))]

\* mutant of guess: the dictionary is enforced whatever any_word says
guess_ignores_any_word(gs, g) ==
    IF Len(g) # Len(gs.word)
    THEN [gs |-> gs, result |-> Err(WrongLength)]
    ELSE IF g \notin gs.valid_words
    THEN [gs |-> gs, result |-> Err(InvalidWord)]
    ELSE LET pushed == [gs EXCEPT !.guesses = Append(@, g)]
         IN  [gs |-> pushed, result |-> Ok(won(pushed))]

\* mutant of guess: lengths compared in bytes (guess.len() != word.len())
guess_byte_len(gs, g) ==
    IF str_len(g) # str_len(gs.word)
    THEN [gs |-> gs, result |-> Err(WrongLength)]
    ELSE IF ~gs.any_word /\ g \notin gs.valid_words
    THEN [gs |-> gs, result |-> Err(InvalidWord)]
    ELSE LET pushed == [gs EXCEPT !.guesses = Append(@, g)]
         IN  [gs |-> pushed, result |-> Ok(won(pushed))]

\* mutant of guess: the guess is pushed before it is validated
guess_push_first(gs, g) ==
    LET pushed == [gs EXCEPT !.guesses = Append(@, g)]
    IN  IF Len(g) # Len(gs.word)
        THEN [gs |-> pushed, result |-> Err(WrongLength)]
        ELSE IF ~gs.any_word /\ g \notin gs.valid_words
        THEN [gs |-> pushed, result |-> Err(InvalidWord)]
        ELSE [gs |-> pushed, result |-> Ok(won(pushed))]

guess(gs, g) ==
    IF Len(g) # Len(gs.word)
    THEN [gs |-> gs, result |-> Err(WrongLength)]
    ELSE IF ~gs.any_word /\ g \notin gs.valid_words
    THEN [gs |-> gs, result |-> Err(InvalidWord)]
    ELSE LET pushed == [gs EXCEPT !.guesses = Append(@, g)]
         IN  [gs |-> pushed, result |-> Ok(won(pushed))]

set_last_error(gs, error) == [gs EXCEPT !.last_error = error]

reset_error(gs) == [gs EXCEPT !.last_error = NoError]

\* mutant of get_guess_hits: containment is tested before position
get_guess_hits_contains_first(gs, guess_position) ==
    IF guess_position >= Len(gs.guesses)
    THEN [panic |-> TRUE, hits |-> <<>>]
    ELSE LET g == gs.guesses[guess_position + 1]
         IN  IF Len(g) > Len(gs.word)
             THEN [panic |-> TRUE, hits |-> <<>>]
             ELSE [panic |-> FALSE,
                   hits  |-> [ i \in 1..Len(g) |->
                                 IF str_contains(gs.word, g[i]) THEN Contains
                                 ELSE IF g[i] = gs.word[i] THEN Hit
                                 ELSE Miss ]]

\* mutant of get_guess_hits: a char counts as contained only where the word
\* has it at a position the guess did not hit
get_guess_hits_unmatched_only(gs, guess_position) ==
    IF guess_position >= Len(gs.guesses)
    THEN [panic |-> TRUE, hits |-> <<>>]
    ELSE LET g == gs.guesses[guess_position + 1]
         IN  IF Len(g) > Len(gs.word)
             THEN [panic |-> TRUE, hits |-> <<>>]
             ELSE [panic |-> FALSE,
                   hits  |-> [ i \in 1..Len(g) |->
                                 IF g[i] = gs.word[i] THEN Hit
                                 ELSE IF \E j \in 1..Len(gs.word) :
                                            gs.word[j] = g[i] /\ g[j] # gs.word[j]
                                      THEN Contains
                                 ELSE Miss ]]

\* get_guess_hits: panic stands for a failed unwrap (no guess at that
\* position, or a guess char at an index the word does not have).
get_guess_hits(gs, guess_position) ==
    IF guess_position >= Len(gs.guesses)
    THEN [panic |-> TRUE, hits |-> <<>>]
    ELSE LET g == gs.guesses[guess_position + 1]
         IN  IF Len(g) > Len(gs.word)
             THEN [panic |-> TRUE, hits |-> <<>>]
             ELSE [panic |-> FALSE,
                   hits  |-> [ i \in 1..Len(g) |->
                                 IF g[i] = gs.word[i] THEN Hit
                                 ELSE IF str_contains(gs.word, g[i]) THEN Contains
                                 ELSE Miss ]]

\* mutant of back: editing the input also clears the error shown
back_clears_error(gs) ==
    IF Len(gs.current_guess) > 0
    THEN [gs EXCEPT !.current_guess = SubSeq(@, 1, Len(@) - 1),
                    !.last_error = NoError]
    ELSE gs

back(gs) ==
    IF Len(gs.current_guess) > 0
    THEN [gs EXCEPT !.current_guess = SubSeq(@, 1, Len(@) - 1)]
    ELSE gs

\* mutant of confirm: a successful guess leaves last_error as it was
confirm_keeps_error(gs) ==
    LET r == guess(gs, gs.current_guess)
        after == IF r.result.tag = "Ok"
                 THEN r.gs
                 ELSE set_last_error(r.gs, r.result.err)
    IN  [after EXCEPT !.current_guess = <<>>]

\* mutant of confirm: the input is cleared only when the guess was accepted
confirm_clears_on_ok(gs) ==
    LET r == guess(gs, gs.current_guess)
    IN  IF r.result.tag = "Ok"
        THEN [reset_error(r.gs) EXCEPT !.current_guess = <<>>]
        ELSE set_last_error(r.gs, r.result.err)

confirm(gs) ==
    LET r == guess(gs, gs.current_guess)
        after == IF r.result.tag = "Ok"
                 THEN reset_error(r.gs)
                 ELSE set_last_error(r.gs, r.result.err)
    IN  [after EXCEPT !.current_guess = <<>>]

\* mutant of add_char: the room left is measured in bytes
add_char_byte_len(gs, c) ==
    IF str_len(gs.current_guess) < str_len(gs.word)
    THEN [gs EXCEPT !.current_guess = Append(@, Head(to_lowercase(c)))]
    ELSE gs

\* mutant of add_char: typing also clears the error shown
add_char_clears_error(gs, c) ==
    IF Len(gs.current_guess) < Len(gs.word)
    THEN [gs EXCEPT !.current_guess = Append(@, Head(to_lowercase(c))),
                    !.last_error = NoError]
    ELSE gs

\* mutant of add_char: the char is pushed as typed
add_char_no_fold(gs, c) ==
    IF Len(gs.current_guess) < Len(gs.word)
    THEN [gs EXCEPT !.current_guess = Append(@, c)]
    ELSE gs

add_char(gs, c) ==
    IF Len(gs.current_guess) < Len(gs.word)
    THEN [gs EXCEPT !.current_guess = Append(@, Head(to_lowercase(c)))]
    ELSE gs

--------------------------------------------------------------------------
(* render_game_state: the hits of the board's rows.  It runs before every  *)
(* key is read and once more after the loop, so it is evaluated in every   *)
(* state.                                                                  *)

\* mutant of render_line_hits: the row being typed is scored as well
render_line_hits_typed_row(gs, y) ==
    IF y <= Len(gs.guesses)
    THEN get_guess_hits(gs, y)
    ELSE [panic |-> FALSE, hits |-> [i \in 1..Len(gs.word) |-> HitNone]]

\* "get hits of line": the scoring of a played row, HitInfo::None for the
\* others
render_line_hits(gs, y) ==
    IF y < Len(gs.guesses)
    THEN get_guess_hits(gs, y)
    ELSE [panic |-> FALSE, hits |-> [i \in 1..Len(gs.word) |-> HitNone]]

\* the rows drawn: y in 0..height, height = max_tries
render_rows(gs) == 0..(gs.max_tries - 1)

\* line_hits.get(x).unwrap() for x in 0..width fails on a row of fewer hits
render_panics(gs) ==
    \E y \in render_rows(gs) :
        \/ render_line_hits(gs, y).panic
        \/ Len(render_line_hits(gs, y).hits) < Len(gs.word)

--------------------------------------------------------------------------
(* The sessions the model starts from: (word, valid_words, any_word) as    *)
(* init_game hands them to GameState::new.  The word is always one of the  *)
(* valid words; a word file may hold words of several lengths, words with  *)
(* uppercase letters (they are not folded) and an empty last line.         *)

Configs ==
    { [word |-> <<97, 252>>, any_word |-> FALSE,
       valid_words |-> {<<97, 252>>, <<252, 97>>, <<252, 252>>, <<97>>}],
      [word |-> <<252>>, any_word |-> TRUE,
       valid_words |-> {<<252>>}],
      [word |-> <<97, 97, 252>>, any_word |-> FALSE,
       valid_words |-> {<<97, 97, 252>>, <<252, 97, 97>>, <<97, 252, 97>>}],
      [word |-> <<97, 97, 97>>, any_word |-> FALSE,
       valid_words |-> {<<97, 97, 97>>, <<252, 97, 252>>, <<252, 97>>, <<97, 252, 97>>}],
      [word |-> <<65, 252, 65>>, any_word |-> FALSE,
       valid_words |-> {<<65, 252, 65>>, <<97, 252, 252>>, <<252, 97, 252>>}],
      [word |-> <<>>, any_word |-> FALSE,
       valid_words |-> {<<>>, <<97, 252>>}] }

Init ==
    /\ \E cfg \in Configs :
          game_state = GameState_new(cfg.word, cfg.valid_words, cfg.any_word)
    /\ prev = game_state
    /\ op = "new"
    /\ arg = 0
    /\ result = NoResult
    /\ session = "Playing"
    /\ printed = <<>>

--------------------------------------------------------------------------
(* game_loop: one action per key event read by stdin.next() *)

\* mutant of AfterLoop: the "You lost!" line is printed unconditionally
AfterLoop_always(gs, out) == Append(out, "lost")

\* What follows the loop: the "You lost!" line unless the game is won.
AfterLoop(gs, out) == IF ~won(gs) THEN Append(out, "lost") ELSE out

\* mutant of KeyChar: keys are still handled after the loop was left
KeyChar_after_exit ==
    /\ \E c \in Keys :
          /\ game_state' = add_char(game_state, c)
          /\ arg' = c
    /\ prev' = game_state
    /\ op' = "add_char"
    /\ UNCHANGED <<result, session, printed>>

\* Key::Char(c), c # '\n'
KeyChar ==
    /\ session = "Playing"
    /\ \E c \in Keys :
          /\ game_state' = add_char(game_state, c)
          /\ arg' = c
    /\ prev' = game_state
    /\ op' = "add_char"
    /\ UNCHANGED <<result, session, printed>>

\* Key::Backspace
KeyBackspace ==
    /\ session = "Playing"
    /\ game_state' = back(game_state)
    /\ prev' = game_state
    /\ op' = "back"
    /\ arg' = 0
    /\ UNCHANGED <<result, session, printed>>

\* mutant of KeyEnter: the while condition is tested before the win
KeyEnter_limit_first ==
    /\ session = "Playing"
    /\ LET gs == confirm(game_state)
       IN  /\ game_state' = gs
           /\ result' = guess(game_state, game_state.current_guess).result
           /\ IF Len(gs.guesses) >= LoopTries
              THEN /\ session' = "Lost"
                   /\ printed' = AfterLoop(gs, printed)
              ELSE IF gs.last_error = NoError /\ won(gs)
              THEN /\ session' = "Won"
                   /\ printed' = AfterLoop(gs, Append(printed, "won"))
              ELSE UNCHANGED <<session, printed>>
    /\ prev' = game_state
    /\ op' = "confirm"
    /\ arg' = 0

\* Key::Char('\n'): confirm, leave the input loop, check for a win, then the
\* while condition; leaving the game loop runs what follows it.
KeyEnter ==
    /\ session = "Playing"
    /\ LET gs == confirm(game_state)
       IN  /\ game_state' = gs
           /\ result' = guess(game_state, game_state.current_guess).result
           /\ IF gs.last_error = NoError /\ won(gs)
              THEN /\ session' = "Won"
                   /\ printed' = AfterLoop(gs, Append(printed, "won"))
              ELSE IF Len(gs.guesses) < LoopTries
              THEN UNCHANGED <<session, printed>>
              ELSE /\ session' = "Lost"
                   /\ printed' = AfterLoop(gs, printed)
    /\ prev' = game_state
    /\ op' = "confirm"
    /\ arg' = 0

\* Key::Esc: break 'game_loop
KeyEsc ==
    /\ session = "Playing"
    /\ session' = "Aborted"
    /\ printed' = AfterLoop(game_state, printed)
    /\ prev' = game_state
    /\ op' = "esc"
    /\ arg' = 0
    /\ UNCHANGED <<game_state, result>>

\* any other key: nothing but the re-render
KeyOther ==
    /\ session = "Playing"
    /\ prev' = game_state
    /\ op' = "other"
    /\ arg' = 0
    /\ UNCHANGED <<game_state, result, session, printed>>

Next == KeyChar \/ KeyBackspace \/ KeyEnter \/ KeyEsc \/ KeyOther

Spec == Init /\ [][Next]_vars

--------------------------------------------------------------------------
(* The engine called directly, as the unit tests do *)

CallAddChar ==
    /\ \E c \in Keys :
          /\ game_state' = add_char(game_state, c)
          /\ arg' = c
    /\ prev' = game_state
    /\ op' = "add_char"
    /\ UNCHANGED <<result, session, printed>>

CallBack ==
    /\ game_state' = back(game_state)
    /\ prev' = game_state
    /\ op' = "back"
    /\ arg' = 0
    /\ UNCHANGED <<result, session, printed>>

CallConfirm ==
    /\ Len(game_state.guesses) < MaxGuesses
    /\ game_state' = confirm(game_state)
    /\ result' = guess(game_state, game_state.current_guess).result
    /\ prev' = game_state
    /\ op' = "confirm"
    /\ arg' = 0
    /\ UNCHANGED <<session, printed>>

EngineNext == CallAddChar \/ CallBack \/ CallConfirm

EngineSpec == Init /\ [][EngineNext]_vars

--------------------------------------------------------------------------
(* Properties of the engine.  prev, op and result describe the last call,  *)
(* so a statement about one call is a statement about one state.           *)

\* Did the input the last confirm() was called on pass the validation?
RightLength == Len(prev.current_guess) = Len(prev.word)
InDictionary == prev.current_guess \in prev.valid_words
Accepted == RightLength /\ (prev.any_word \/ InDictionary)

\* C1: confirm() on an input whose character count differs from the word's
\* leaves the history unchanged and sets last_error to WrongLength.
C1_WrongLengthRejected ==
    (op = "confirm" /\ ~RightLength) =>
        /\ game_state.guesses = prev.guesses
        /\ game_state.last_error = WrongLength

C1_Witness ==
    /\ op = "confirm"
    /\ ~RightLength
    /\ prev.current_guess # <<>>
    /\ prev.guesses # <<>>
    /\ prev.last_error = InvalidWord
    /\ game_state.last_error = WrongLength

\* C2: confirm() on an input of the word's length that is not in the
\* dictionary is rejected with InvalidWord (history unchanged) when any_word
\* is off, and is appended to the history when any_word is on.
C2_DictionaryEnforcedUnlessAnyWord ==
    (op = "confirm" /\ RightLength /\ ~InDictionary) =>
        IF prev.any_word
        THEN game_state.guesses = Append(prev.guesses, prev.current_guess)
        ELSE /\ game_state.guesses = prev.guesses
             /\ game_state.last_error = InvalidWord

C2_Witness ==
    /\ op = "confirm"
    /\ RightLength
    /\ ~InDictionary
    /\ ~prev.any_word
    /\ prev.guesses # <<>>
    /\ prev.last_error = NoError
    /\ game_state.last_error = InvalidWord

\* C3: confirm() on an input that passes validation appends exactly that
\* input to the history, leaves last_error None, and guess() returns
\* Ok(input = word).
C3_AcceptedGuessAppended ==
    (op = "confirm" /\ Accepted) =>
        /\ game_state.guesses = Append(prev.guesses, prev.current_guess)
        /\ game_state.last_error = NoError
        /\ result = Ok(prev.current_guess = prev.word)

C3_Witness ==
    /\ op = "confirm"
    /\ Accepted
    /\ prev.guesses # <<>>
    /\ prev.last_error # NoError
    /\ game_state.last_error = NoError
    /\ result = Ok(TRUE)

\* C4: after every confirm(), accepted or not, the input buffer is empty.
C4_InputClearedByConfirm ==
    op = "confirm" => game_state.current_guess = <<>>

C4_Witness ==
    /\ op = "confirm"
    /\ prev.current_guess # <<>>
    /\ result = Err(InvalidWord)
    /\ game_state.current_guess = <<>>

\* C5: every guess of the history has the word's character count and, when
\* any_word is off, is a word of the dictionary.
C5_HistoryValidated ==
    \A i \in 1..Len(game_state.guesses) :
        /\ Len(game_state.guesses[i]) = Len(game_state.word)
        /\ (~game_state.any_word => game_state.guesses[i] \in game_state.valid_words)

C5_Witness ==
    /\ Len(game_state.guesses) >= 2
    /\ ~game_state.any_word
    /\ \E i \in 1..Len(game_state.guesses) :
          str_len(game_state.guesses[i]) # str_len(game_state.word)
    /\ op = "confirm"
    /\ result.tag = "Err"

\* C6: the input buffer never holds more chars than the word.
C6_InputBounded ==
    Len(game_state.current_guess) <= Len(game_state.word)

\* add_char was called on a full buffer holding a two-byte char
C6_Witness ==
    /\ op = "add_char"
    /\ Len(prev.current_guess) = Len(prev.word)
    /\ Len(prev.word) > 0
    /\ str_len(prev.current_guess) # Len(prev.current_guess)
    /\ game_state.current_guess = prev.current_guess

\* The last guess of the history, compared with the word
LastIsWord(gs) ==
    /\ gs.guesses # <<>>
    /\ gs.guesses[Len(gs.guesses)] = gs.word

\* C7: won() holds iff the history is non-empty and its last guess is the
\* word; it holds right after the word was committed; add_char, back and a
\* failed confirm leave its value as it was.
C7_WonIsLastGuessIsWord ==
    /\ won(game_state) <=> LastIsWord(game_state)
    /\ (op = "confirm" /\ Accepted /\ prev.current_guess = prev.word)
          => won(game_state)
    /\ (op \in {"add_char", "back"} \/ (op = "confirm" /\ result.tag = "Err"))
          => (won(game_state) <=> won(prev))

\* a failed confirm after a win followed by another guess: won() stays false
\* although the word is in the history
C7_Witness ==
    /\ op = "confirm"
    /\ result.tag = "Err"
    /\ \E i \in 1..Len(game_state.guesses) : game_state.guesses[i] = game_state.word
    /\ ~LastIsWord(game_state)
    /\ ~won(game_state)

\* C8: for every committed guess, get_guess_hits returns as many
\* classifications as the word has chars, each of them Hit, Contains or Miss,
\* and the one at position i is Hit iff the guess and the word agree at i.
C8_HitsShape ==
    \A pos \in 0..(Len(game_state.guesses) - 1) :
        LET h == get_guess_hits(game_state, pos)
            g == game_state.guesses[pos + 1]
        IN  /\ ~h.panic
            /\ Len(h.hits) = Len(game_state.word)
            /\ \A i \in 1..Len(h.hits) :
                  /\ h.hits[i] \in {Hit, Contains, Miss}
                  /\ (h.hits[i] = Hit <=> g[i] = game_state.word[i])

\* a committed guess scored Contains, Hit, Miss in one row
C8_Witness ==
    \E pos \in 0..(Len(game_state.guesses) - 1) :
        LET h == get_guess_hits(game_state, pos).hits
        IN  /\ \E i \in 1..Len(h) : h[i] = Hit
            /\ \E i \in 1..Len(h) : h[i] = Contains
            /\ \E i \in 1..Len(h) : h[i] = Miss

--------------------------------------------------------------------------
(* Properties of game_loop *)

\* C9 as stated: the session ends with exactly one report, and it is the
\* report of the exit taken: won, lost, or aborted after Esc.
C9_AsStated ==
    /\ session = "Won" => printed = <<"won">>
    /\ session = "Lost" => printed = <<"lost">>
    /\ session = "Aborted" => printed = <<"aborted">>

\* C9 (amended): the session ends with exactly one report, won or lost: won
\* when the last committed guess is the word, lost when the history reached
\* max_tries without a win, and lost as well when Esc ended the session; Esc
\* read while playing always ends the session through the abort exit, and
\* nothing is reported while the session is playing.
C9_OneReportAbortReportsLost ==
    /\ session = "Playing" => printed = <<>>
    /\ session = "Won" => (printed = <<"won">> /\ LastIsWord(game_state))
    /\ session = "Lost" =>
          /\ printed = <<"lost">>
          /\ Len(game_state.guesses) = max_tries
          /\ ~LastIsWord(game_state)
    /\ session = "Aborted" => (printed = <<"lost">> /\ op = "esc")
    /\ op = "esc" => session = "Aborted"

C9_Witness ==
    /\ session = "Aborted"
    /\ op = "esc"
    /\ printed = <<"lost">>
    /\ game_state.guesses # <<>>
    /\ game_state.current_guess # <<>>

\* C10: the session is Lost exactly when the last key was a confirm whose
\* guess was accepted, made the history max_tries long and was not the word;
\* then won() is false; an accepted guess that is the word ends the session
\* Won, on the sixth attempt too.
C10_LostIffSixthGuessMisses ==
    /\ session = "Lost" <=>
          /\ op = "confirm"
          /\ result = Ok(FALSE)
          /\ Len(game_state.guesses) = max_tries
          /\ Len(prev.guesses) = max_tries - 1
    /\ session = "Lost" => ~won(game_state)
    /\ (op = "confirm" /\ result = Ok(TRUE)) => session = "Won"

\* six accepted guesses, none of them the word
C10_Witness ==
    /\ session = "Lost"
    /\ Len(game_state.guesses) = max_tries
    /\ \A i \in 1..Len(game_state.guesses) : game_state.guesses[i] # game_state.word
    /\ ~won(game_state)
    /\ printed = <<"lost">>

--------------------------------------------------------------------------
(* Further properties of game_loop and of the engine *)

\* C11: a failed confirm (WrongLength or InvalidWord) consumes no attempt:
\* the history is as long as before and the session is still Playing.
C11_FailedConfirmKeepsPlaying ==
    (op = "confirm" /\ result.tag = "Err") =>
        /\ Len(game_state.guesses) = Len(prev.guesses)
        /\ session = "Playing"
        /\ printed = <<>>

\* a failed confirm with five guesses already made
C11_Witness ==
    /\ op = "confirm"
    /\ result = Err(InvalidWord)
    /\ prev.last_error = WrongLength
    /\ Len(game_state.guesses) = max_tries - 1
    /\ session = "Playing"

\* C12: in a session driven by game_loop the history never holds more than
\* max_tries guesses.
C12_HistoryBounded ==
    Len(game_state.guesses) <= max_tries

C12_Witness ==
    /\ Len(game_state.guesses) = max_tries
    /\ op = "confirm"
    /\ session \in {"Won", "Lost"}

\* What add_char and back must leave alone
SameButInput(a, b) ==
    /\ a.guesses = b.guesses
    /\ a.last_error = b.last_error
    /\ a.word = b.word
    /\ a.valid_words = b.valid_words
    /\ a.any_word = b.any_word
    /\ a.max_tries = b.max_tries

\* C13: add_char and back change nothing but the input buffer; add_char on
\* a buffer as long as the word and back on an empty buffer change nothing.
C13_EditsTouchOnlyInput ==
    /\ op \in {"add_char", "back"} => SameButInput(game_state, prev)
    /\ (op = "add_char" /\ Len(prev.current_guess) >= Len(prev.word))
          => game_state = prev
    /\ (op = "back" /\ prev.current_guess = <<>>) => game_state = prev

\* a char typed while an error is shown and guesses were made
C13_Witness ==
    /\ op = "add_char"
    /\ game_state.current_guess # prev.current_guess
    /\ prev.last_error = InvalidWord
    /\ game_state.last_error = InvalidWord
    /\ game_state.guesses # <<>>

\* Every char of the input buffer is its own lowercase form
Folded(s) == \A i \in 1..Len(s) : to_lowercase(s[i]) = <<s[i]>>

\* C14 as stated: add_char on a buffer shorter than the word appends the
\* lowercase form of c; back on a non-empty buffer drops its last char.
C14_AsStated ==
    /\ (op = "add_char" /\ Len(prev.current_guess) < Len(prev.word)) =>
          game_state.current_guess = prev.current_guess \o to_lowercase(arg)
    /\ (op = "back" /\ prev.current_guess # <<>>) =>
          game_state.current_guess =
              SubSeq(prev.current_guess, 1, Len(prev.current_guess) - 1)

\* C14 (amended): add_char on a buffer shorter than the word appends the
\* first char of the lowercase form of c, which is the whole lowercase form
\* unless c is U+0130 (whose lowercase form has two chars); the buffer only
\* ever holds chars that are their own lowercase form; back on a non-empty
\* buffer drops its last char.
C14_AppendsFirstLowercaseChar ==
    /\ (op = "add_char" /\ Len(prev.current_guess) < Len(prev.word)) =>
          /\ Len(game_state.current_guess) = Len(prev.current_guess) + 1
          /\ SubSeq(game_state.current_guess, 1, Len(prev.current_guess))
                = prev.current_guess
          /\ game_state.current_guess[Len(game_state.current_guess)]
                = to_lowercase(arg)[1]
          /\ (arg # 304 =>
                game_state.current_guess = prev.current_guess \o to_lowercase(arg))
    /\ Folded(game_state.current_guess)
    /\ (op = "back" /\ prev.current_guess # <<>>) =>
          game_state.current_guess =
              SubSeq(prev.current_guess, 1, Len(prev.current_guess) - 1)

\* U+0130 typed after an "a": the buffer holds "a" then "i", no combining dot
C14_Witness ==
    /\ op = "add_char"
    /\ arg = 304
    /\ prev.current_guess = <<97>>
    /\ game_state.current_guess = <<97, 105>>
    /\ Len(to_lowercase(arg)) = 2

\* C15: the length is validated before the dictionary: confirm() on an input
\* of another length than the word never leaves InvalidWord in last_error,
\* also when any_word is off and the input is not in the dictionary; guess()
\* returns Err(WrongLength).
C15_LengthBeforeDictionary ==
    (op = "confirm" /\ ~RightLength) =>
        /\ game_state.last_error # InvalidWord
        /\ result = Err(WrongLength)

\* a too short input that is not in the dictionary, any_word off
C15_Witness ==
    /\ op = "confirm"
    /\ ~RightLength
    /\ ~InDictionary
    /\ ~prev.any_word
    /\ prev.current_guess # <<>>
    /\ result = Err(WrongLength)

\* Number of positions of s holding c
RECURSIVE Occurrences(_, _)
Occurrences(s, c) ==
    IF s = <<>> THEN 0
    ELSE (IF Head(s) = c THEN 1 ELSE 0) + Occurrences(Tail(s), c)

\* Number of positions of guess g holding c that the row h marks Hit or Contains
Marked(g, h, c) ==
    Cardinality({ i \in 1..Len(g) : g[i] = c /\ h[i] \in {Hit, Contains} })

\* C16: at a position where the guess differs from the word, get_guess_hits
\* gives Contains iff the guess's char occurs anywhere in the word (at a
\* position the guess hit, too) and Miss otherwise.
C16_ContainsIsMembership ==
    \A pos \in 0..(Len(game_state.guesses) - 1) :
        LET h == get_guess_hits(game_state, pos).hits
            g == game_state.guesses[pos + 1]
            w == game_state.word
        IN  \A i \in 1..Len(g) :
                g[i] # w[i] =>
                    /\ h[i] = Contains <=> Occurrences(w, g[i]) > 0
                    /\ h[i] = Miss <=> Occurrences(w, g[i]) = 0

\* over-reporting: a letter marked on more positions than the word has it,
\* one of them Contains although the only occurrence in the word is hit
C16_Witness ==
    \E pos \in 0..(Len(game_state.guesses) - 1) :
        LET h == get_guess_hits(game_state, pos).hits
            g == game_state.guesses[pos + 1]
            w == game_state.word
        IN  \E i \in 1..Len(g) :
                /\ h[i] = Contains
                /\ Marked(g, h, g[i]) > Occurrences(w, g[i])
                /\ \A j \in 1..Len(w) : w[j] = g[i] => h[j] = Hit

\* C17: last_error is the outcome of the most recent confirm(): None before
\* the first confirm and after an accepted one, the error kind of a rejected
\* one, whatever add_char and back calls followed it.
C17_LastErrorIsLastConfirm ==
    /\ game_state.last_error = result.err
    /\ result.tag = "NoCall" => game_state.guesses = <<>>
    /\ op = "confirm" =>
          result = IF ~RightLength THEN Err(WrongLength)
                   ELSE IF ~Accepted THEN Err(InvalidWord)
                   ELSE Ok(prev.current_guess = prev.word)
    /\ op \in {"add_char", "back"} => game_state.last_error = prev.last_error

\* an error still shown after the input was edited
C17_Witness ==
    /\ op = "back"
    /\ game_state.current_guess # prev.current_guess
    /\ game_state.last_error = InvalidWord
    /\ result = Err(InvalidWord)
    /\ game_state.guesses # <<>>

\* C18: Won, Lost and Aborted are terminal: once game_loop has left
\* Playing no key is handled and nothing of the state changes.
C18_ExitsAreTerminal ==
    [][session # "Playing" => UNCHANGED vars]_vars

\* the session was aborted with typed input pending and an error shown
C18_Witness ==
    /\ session = "Aborted"
    /\ game_state.current_guess # <<>>
    /\ game_state.last_error # NoError
    /\ Len(game_state.guesses) < max_tries

\* C19: rendering never asks for the hits of an unplayed row and never fails
\* an unwrap: rows below the history length are scored, with one
\* classification per char of the word, the others are HitInfo::None.
C19_RenderScoresPlayedRowsOnly ==
    /\ ~render_panics(game_state)
    /\ \A y \in render_rows(game_state) :
          LET h == render_line_hits(game_state, y)
          IN  /\ ~h.panic
              /\ Len(h.hits) = Len(game_state.word)
              /\ \A i \in 1..Len(h.hits) :
                    h.hits[i] = HitNone <=> y >= Len(game_state.guesses)
    /\ \A y \in 0..(Len(game_state.guesses) - 1) :
          /\ ~get_guess_hits(game_state, y).panic
          /\ Len(game_state.guesses[y + 1]) <= Len(game_state.word)

\* a board with played rows, a row being typed and unplayed rows
C19_Witness ==
    /\ session = "Playing"
    /\ Len(game_state.guesses) = 3
    /\ game_state.current_guess # <<>>
    /\ Len(game_state.word) = 3
    /\ ~render_panics(game_state)

\* C20: while game_loop is Playing won() is false; the word occurs in the
\* history at most once, as its last guess, and then the session is Won:
\* a winning confirm is never missed by testing last_error first.
C20_PlayingIsNotWon ==
    /\ session = "Playing" => ~won(game_state)
    /\ won(game_state) => session = "Won"
    /\ \A i \in 1..Len(game_state.guesses) :
          game_state.guesses[i] = game_state.word
              => (i = Len(game_state.guesses) /\ session = "Won")
    /\ (op = "confirm" /\ Accepted /\ prev.current_guess = prev.word)
          => (session = "Won" /\ game_state.last_error = NoError)

\* a win right after a rejected confirm, on a later attempt
C20_Witness ==
    /\ session = "Won"
    /\ op = "confirm"
    /\ prev.last_error # NoError
    /\ Len(game_state.guesses) > 1
    /\ won(game_state)

==========================================================================
